---- MODULE Spec2Model ----
(***************************************************************************)
(* Model of the Vagrant inventory plugin, inventory_plugins/vagrant.py.    *)
(*                                                                         *)
(* Three specifications share the definitions below:                       *)
(*   SpecParser  the SSH-config parsing loop of _get_vagrant_vm_details,   *)
(*               one loop iteration per step, over every bounded text;     *)
(*   Spec        one call of parse(): cache decision, version probe, the   *)
(*               loop over the configured paths, the emitter;              *)
(*   SpecCache   repeated calls of parse() against a persistent cache;     *)
(*   SpecScanner the line loop of _get_vms_private_ips, one iteration per  *)
(*               step, over every bounded definition file;                 *)
(*   SpecResolver the name-probing loop, applied to every bounded base     *)
(*               name and list of names already assigned.                  *)
(*                                                                         *)
(* Text is modelled by its words.  A word is a tuple of symbols: keywords  *)
(* are spelled letter by letter, values are one opaque symbol each.  A     *)
(* line is its leading whitespace (indent) and its whitespace-separated    *)
(* words.  The empty tuple stands for Python's None and for "", the two    *)
(* falsy values a field can hold.                                          *)
(***************************************************************************)
EXTENDS Integers, Sequences, FiniteSets, TLC

VARIABLES
    \* ---- the SSH-config parsing loop (lines 196-240) ----
    vagrant_output,         \* the lines the loop has read so far
    parser,                 \* vm_name, vm_ip, vm_user, vm_port, vm_key, vms
    ploop,                  \* "reading" | "end"
    \* ---- one call of parse() (lines 295-323) ----
    pc,                     \* "idle" | "probe" | "paths" | "done" | "failed"
    cache_arg,              \* the cache argument of parse()
    cache_option,           \* get_option("cache")
    get_private_ip,         \* get_option("get_host_only_ips")
    cache_needs_update,
    cache_store,            \* self._cache: <<>> (key absent) or <<result>>
    vm_paths,               \* the items of get_option("paths") iterated so far
    existing_group_names,
    private_ips,
    vagrant_vm_details,     \* insertion-ordered dict, as a sequence of entries
    vagrant_data,           \* what parse() hands to _parse_ansible_data
    inventory,              \* the sink: the operations received, in order
    warnings,               \* self.display.warning calls of this run
    commands,               \* CommandRunner invocations of this run, with
                            \* how each ended ("ok" | "exit" | "timeout")
    error,                  \* the exception that ended the run, or "none"
    hist,                   \* ghost: per non-skipped item, name and own records
    \* ---- the line loop of _get_vms_private_ips (lines 118-131) ----
    vagrant_file_data,      \* the lines the loop has read so far
    scanner,                \* return_data, current_vm, current_vm_ip
    sloop,                  \* "reading" | "end"
    pending_at,             \* ghost: the lines that set current_vm, current_vm_ip
    paired,                 \* ghost: per recording, the name, the ip and the
                            \* lines they were read from
    \* ---- the name-probing loop (lines 162-179) ----
    vagrant_folder_name_base,
    names_before,           \* existing_group_names when the loop starts
    probed                  \* <<>> before the loop, <<its outcome>> after it

parserVars == <<vagrant_output, parser, ploop>>
scannerVars == <<vagrant_file_data, scanner, sloop, pending_at, paired>>
resolverVars == <<vagrant_folder_name_base, names_before, probed>>
loopVars == <<scannerVars, resolverVars>>
runVars == <<pc, cache_arg, cache_option, get_private_ip, cache_needs_update,
             cache_store, vm_paths, existing_group_names, private_ips,
             vagrant_vm_details, vagrant_data, inventory, warnings, commands,
             error, hist>>
vars == <<parserVars, runVars, loopVars>>

(***************************************************************************)
(* Bounds                                                                  *)
(***************************************************************************)
MaxLines == 6
MaxPaths == 3
MaxCachePaths == 1
MaxScanLines == 4
MaxAssigned == 3

(***************************************************************************)
(* Words and lines                                                         *)
(***************************************************************************)
None == <<>>

Truthy(x) == x # None

W_Host == <<"H", "o", "s", "t">>
W_HostName == <<"H", "o", "s", "t", "N", "a", "m", "e">>
W_User == <<"U", "s", "e", "r">>
W_UserKnownHostsFile ==
    <<"U", "s", "e", "r", "K", "n", "o", "w", "n",
      "H", "o", "s", "t", "s", "F", "i", "l", "e">>
W_Port == <<"P", "o", "r", "t">>
W_IdentityFile ==
    <<"I", "d", "e", "n", "t", "i", "t", "y", "F", "i", "l", "e">>

Val(s) == <<s>>

Line(indent, words) == [indent |-> indent, words |-> words]

\* str.startswith(prefix) for a prefix without whitespace: the line has no
\* leading whitespace and its first word begins with the prefix.
IsPrefix(p, w) == Len(p) <= Len(w) /\ SubSeq(w, 1, Len(p)) = p

StartsWith(line, prefix) ==
    /\ ~line.indent
    /\ line.words # <<>>
    /\ IsPrefix(prefix, line.words[1])

\* str.strip()
Strip(line) == [line EXCEPT !.indent = FALSE]

\* line.split()[-1].strip(), taken only of lines that hold a word
LastToken(line) == line.words[Len(line.words)]

\* `sub in line`, for a sub without whitespace
Contains(line, sub) ==
    \E i \in 1..Len(line.words) :
        \E k \in 0..Len(line.words[i]) :
            /\ k + Len(sub) <= Len(line.words[i])
            /\ SubSeq(line.words[i], k + 1, k + Len(sub)) = sub

(***************************************************************************)
(* The SSH-config parsing loop, lines 196-240                              *)
(***************************************************************************)
ParserInit(vms) ==
    [vm_name |-> None, vm_ip |-> None, vm_user |-> None, vm_port |-> None,
     vm_key |-> None, vms |-> vms]

AllFieldsSet_KeyUnchecked(name, ip, user, port, key) ==
    Truthy(name) /\ Truthy(ip) /\ Truthy(user) /\ Truthy(port)

\* line 223
AllFieldsSet(name, ip, user, port, key) ==
    Truthy(name) /\ Truthy(ip) /\ Truthy(user) /\ Truthy(port) /\ Truthy(key)

HasHostOnlyIp_Never(ips, name) == FALSE

\* line 232: ips is private_ips[group_name], or the empty map when the
\* group has no entry in private_ips
HasHostOnlyIp(ips, name) == name \in DOMAIN ips /\ Truthy(ips[name])

\* lines 224-233
VmDetails(name, ip, user, port, key, ips) ==
    LET base == [name |-> name, host |-> ip, user |-> user,
                 port |-> port, key |-> key]
    IN  IF HasHostOnlyIp(ips, name)
        THEN [name |-> name, host |-> ip, user |-> user, port |-> port,
              key |-> key, host_only_ip |-> ips[name]]
        ELSE base

\* lines 202-204: what a line starting with Host does to the pending state
HostLine(st, line) == [st EXCEPT !.vm_name = LastToken(line)]

\* lines 202-240: one iteration of the loop
ParseLine(st, line, ips) ==
    IF StartsWith(line, W_Host)
    THEN HostLine(st, line)
    ELSE IF ~Truthy(st.vm_name)
    THEN st
    ELSE
      LET s == Strip(line)
          ip == IF StartsWith(s, W_HostName) THEN LastToken(s) ELSE st.vm_ip
          user == IF StartsWith(s, W_User)
                     /\ ~Contains(s, W_UserKnownHostsFile)
                  THEN LastToken(s) ELSE st.vm_user
          port == IF StartsWith(s, W_Port) THEN LastToken(s) ELSE st.vm_port
          key == IF StartsWith(s, W_IdentityFile)
                 THEN LastToken(s) ELSE st.vm_key
      IN  IF AllFieldsSet(st.vm_name, ip, user, port, key)
          THEN ParserInit(Append(st.vms,
                                 VmDetails(st.vm_name, ip, user, port, key, ips)))
          ELSE [st EXCEPT !.vm_ip = ip, !.vm_user = user,
                          !.vm_port = port, !.vm_key = key]

\* lines 196-240: the whole loop over the lines of one output, appending to
\* the vms the group already holds
RECURSIVE ParseFrom(_, _, _)
ParseFrom(st, lines, ips) ==
    IF lines = <<>> THEN st
    ELSE ParseFrom(ParseLine(st, Head(lines), ips), Tail(lines), ips)

ParseOutput(vms, lines, ips) == ParseFrom(ParserInit(vms), lines, ips).vms

(***************************************************************************)
(* The lines the parsing loop is fed in SpecParser: what `vagrant          *)
(* ssh-config` prints (an unindented Host line, indented directives), and  *)
(* a directive written without indentation.                                *)
(***************************************************************************)
SshLines ==
    { Line(FALSE, <<W_Host, Val("a")>>),
      Line(FALSE, <<W_Host, Val("b")>>),
      Line(TRUE, <<W_HostName, Val("h")>>),
      Line(TRUE, <<W_User, Val("u")>>),
      Line(TRUE, <<W_Port, Val("p")>>),
      Line(TRUE, <<W_IdentityFile, Val("k")>>),
      Line(TRUE, <<W_UserKnownHostsFile, Val("f")>>),
      Line(FALSE, <<W_HostName, Val("h2")>>) }

NoIps == [n \in {} |-> None]

ParserStart ==
    /\ vagrant_output = <<>>
    /\ parser = ParserInit(<<>>)
    /\ ploop = "reading"

\* one iteration of `for each_line in vagrant_output`, lines 201-240
ReadLine(line) ==
    /\ ploop = "reading"
    /\ Len(vagrant_output) < MaxLines
    /\ vagrant_output' = Append(vagrant_output, line)
    /\ parser' = ParseLine(parser, line, NoIps)
    /\ ploop' = ploop
    /\ UNCHANGED <<runVars, loopVars>>

\* the loop runs out of lines; nothing follows it for this output
EndOfOutput ==
    /\ ploop = "reading"
    /\ ploop' = "end"
    /\ UNCHANGED <<vagrant_output, parser>>
    /\ UNCHANGED <<runVars, loopVars>>

(***************************************************************************)
(* Group names, lines 158-182.  Group names are strings; "" stands for     *)
(* both falsy values of group_name (None and the empty string).            *)
(***************************************************************************)
NoName == ""

\* a path is the tuple of its "/"-separated segments: vagrant_path.split("/")
LastSegment(path) == path[Len(path)]

InList(x, list) == \E i \in 1..Len(list) : list[i] = x

Candidate_SuffixFromTwo(base, counter) ==
    IF counter = 0 THEN base ELSE base \o "-" \o ToString(counter + 1)

Candidate_IgnoresCounter(base, counter) == base

\* lines 166-169
Candidate(base, counter) ==
    IF counter = 0 THEN base ELSE base \o "-" \o ToString(counter)

\* lines 165-179: the while loop, from the given value of counter
RECURSIVE NameLoop(_, _, _)
NameLoop(base, counter, existing) ==
    LET vm_folder_name == Candidate(base, counter)
    IN  IF ~InList(vm_folder_name, existing)
        THEN [group_name |-> vm_folder_name,
              existing |-> Append(existing, vm_folder_name),
              probes |-> counter + 1]
        ELSE IF counter > Len(existing)
        THEN [group_name |-> NoName, existing |-> existing,
              probes |-> counter + 1]
        ELSE NameLoop(base, counter + 1, existing)

HasKey(item, k) == k \in DOMAIN item

\* line 159
HasExplicitName(item) == HasKey(item, "group_name") /\ item.group_name # NoName

\* lines 158-179
ResolveGroupName(item, existing) ==
    IF HasExplicitName(item)
    THEN [group_name |-> item.group_name, existing |-> existing, probes |-> 0]
    ELSE NameLoop(LastSegment(item.path), 0, existing)

\* the loop is not running
ResolverIdle ==
    /\ vagrant_folder_name_base = NoName
    /\ names_before = <<>>
    /\ probed = <<>>

\* the base names and the names a list of assigned names can hold
BaseNames == {"demo", "demo-1", ""}
AssignedNames == {"demo", "demo-1", "demo-2", "demo-3", "demo-1-1", "k8s", ""}

\* line 174 appends a name only when it is not in the list, so the list
\* never holds a name twice
AssignedLists ==
    { l \in UNION { [1..n -> AssignedNames] : n \in 0..MaxAssigned } :
          \A i \in 1..Len(l), j \in 1..Len(l) : l[i] = l[j] => i = j }

\* lines 162-179, the whole loop from counter = 0
ProbeNames ==
    /\ probed = <<>>
    /\ probed' = <<NameLoop(vagrant_folder_name_base, 0, names_before)>>
    /\ UNCHANGED <<vagrant_folder_name_base, names_before>>
    /\ UNCHANGED <<parserVars, runVars, scannerVars>>

(***************************************************************************)
(* CommandRunner, lines 81-104.  An outcome is what subprocess.run does:   *)
(* it returns stdout, raises CalledProcessError (non-zero exit) or raises  *)
(* TimeoutExpired.  Stdout is held as its lines.                           *)
(***************************************************************************)
Ok(lines) == [kind |-> "ok", stdout |-> lines]
NonZeroExit == [kind |-> "exit", stdout |-> <<>>]
Timeout == [kind |-> "timeout", stdout |-> <<>>]

RunVagrantCommand_ExitAlwaysSkipped(arguments, outcome) ==
    IF outcome.kind = "ok"
    THEN [raised |-> "none", output |-> <<outcome.stdout>>, warned |-> FALSE]
    ELSE IF outcome.kind = "exit"
    THEN [raised |-> "none", output |-> <<>>, warned |-> TRUE]
    ELSE [raised |-> "TimeoutExpired", output |-> <<>>, warned |-> FALSE]

\* lines 94-104: output is <<>> for None and <<lines>> for a string
RunVagrantCommand(arguments, outcome) ==
    IF outcome.kind = "ok"
    THEN [raised |-> "none", output |-> <<outcome.stdout>>, warned |-> FALSE]
    ELSE IF outcome.kind = "exit"
    THEN IF arguments # "ssh-config"
         THEN [raised |-> "AnsibleError", output |-> <<>>, warned |-> FALSE]
         ELSE [raised |-> "none", output |-> <<>>, warned |-> TRUE]
    ELSE [raised |-> "TimeoutExpired", output |-> <<>>, warned |-> FALSE]

\* line 194: .splitlines() of what _run_vagrant_command returned
SplitLines(output) ==
    IF output = <<>>
    THEN [raised |-> "AttributeError", lines |-> <<>>]
    ELSE [raised |-> "none", lines |-> output[1]]

(***************************************************************************)
(* DefinitionScanner, lines 116-133.  A line of the definition file is     *)
(* held as what the two patterns extract from it: define is <<name>> when  *)
(* the line starts with config.vm.define (name may be empty), ip is        *)
(* <<address>> when it holds the private-network pattern.                  *)
(***************************************************************************)
DefLine(define, ip) == [define |-> define, ip |-> ip]

ScanInit == [return_data |-> [n \in {} |-> None],
             current_vm |-> None, current_vm_ip |-> None]

Put(map, k, v) == [x \in DOMAIN map \cup {k} |-> IF x = k THEN v ELSE map[x]]

\* lines 120-131: one iteration
ScanLine(st, line) ==
    LET vm == IF line.define # <<>> THEN line.define[1] ELSE st.current_vm
        ip == IF line.ip # <<>> THEN line.ip[1] ELSE st.current_vm_ip
    IN  IF Truthy(vm) /\ Truthy(ip)
        THEN [return_data |-> Put(st.return_data, vm, ip),
              current_vm |-> None, current_vm_ip |-> None]
        ELSE [return_data |-> st.return_data,
              current_vm |-> vm, current_vm_ip |-> ip]

RECURSIVE ScanFrom(_, _)
ScanFrom(st, lines) ==
    IF lines = <<>> THEN st ELSE ScanFrom(ScanLine(st, Head(lines)), Tail(lines))

\* lines 107-133
GetVmsPrivateIps(lines) == ScanFrom(ScanInit, lines).return_data

\* the lines a definition file is made of
VagrantfileLines ==
    { DefLine(<<Val("n1")>>, <<>>), DefLine(<<Val("n2")>>, <<>>),
      DefLine(<<None>>, <<>>),
      DefLine(<<>>, <<Val("10.0.0.5")>>), DefLine(<<>>, <<Val("10.0.0.9")>>),
      DefLine(<<>>, <<None>>),
      DefLine(<<>>, <<>>) }

NotRead == 0

ScannerStart ==
    /\ vagrant_file_data = <<>>
    /\ scanner = ScanInit
    /\ sloop = "reading"
    /\ pending_at = [vm |-> NotRead, ip |-> NotRead]
    /\ paired = <<>>

\* one iteration of `for each_line in vagrant_file_data`, lines 118-131;
\* pending_at and paired follow the assignments of lines 122, 125, 128-130
ScanVagrantfileLine(line) ==
    LET at == Len(vagrant_file_data) + 1
        vm_at == IF line.define # <<>> THEN at ELSE pending_at.vm
        ip_at == IF line.ip # <<>> THEN at ELSE pending_at.ip
        vm == IF line.define # <<>> THEN line.define[1] ELSE scanner.current_vm
        ip == IF line.ip # <<>> THEN line.ip[1] ELSE scanner.current_vm_ip
        recorded == Truthy(vm) /\ Truthy(ip)
    IN  /\ sloop = "reading"
        /\ Len(vagrant_file_data) < MaxScanLines
        /\ vagrant_file_data' = Append(vagrant_file_data, line)
        /\ scanner' = ScanLine(scanner, line)
        /\ sloop' = sloop
        /\ IF recorded
           THEN /\ pending_at' = [vm |-> NotRead, ip |-> NotRead]
                /\ paired' = Append(paired, [name |-> vm, ip |-> ip,
                                             define_at |-> vm_at,
                                             ip_at |-> ip_at])
           ELSE /\ pending_at' = [vm |-> vm_at, ip |-> ip_at]
                /\ paired' = paired
        /\ UNCHANGED <<parserVars, runVars, resolverVars>>

\* line 133: the loop runs out of lines
EndOfVagrantfile ==
    /\ sloop = "reading"
    /\ sloop' = "end"
    /\ UNCHANGED <<vagrant_file_data, scanner, pending_at, paired>>
    /\ UNCHANGED <<parserVars, runVars, resolverVars>>

(***************************************************************************)
(* The emitter, lines 252-293.  The sink is the sequence of operations it  *)
(* receives.                                                               *)
(***************************************************************************)
AddGroup(name) == [op |-> "add_group", name |-> name]
AddHost(host, group) == [op |-> "add_host", host |-> host, group |-> group]
SetVariable(entity, key, val) ==
    [op |-> "set_variable", entity |-> entity, key |-> key, val |-> val]
AddChild(parent, child) == [op |-> "add_child", parent |-> parent, child |-> child]

InventoryHost_SshAddress(each_vm) == each_vm.host

\* lines 270-273
InventoryHost(each_vm) ==
    IF HasKey(each_vm, "host_only_ip") /\ Truthy(each_vm.host_only_ip)
    THEN each_vm.host_only_ip
    ELSE each_vm.name

\* lines 275-280
HostOps(each_vm, group) ==
    LET host == InventoryHost(each_vm)
    IN  << AddHost(host, group),
           SetVariable(host, "ht_name", each_vm.name),
           SetVariable(host, "ansible_host", each_vm.host),
           SetVariable(host, "ansible_port", each_vm.port),
           SetVariable(host, "ansible_user", each_vm.user),
           SetVariable(host, "ansible_ssh_private_key_file", each_vm.key) >>

RECURSIVE VmsOps(_, _)
VmsOps(vms, group) ==
    IF vms = <<>> THEN <<>>
    ELSE HostOps(Head(vms), group) \o VmsOps(Tail(vms), group)

\* lines 262-266
RECURSIVE VarsOps(_, _)
VarsOps(items, group) ==
    IF items = <<>> THEN <<>>
    ELSE LET v == Head(items)
         IN  (IF ~HasKey(v, "key") \/ ~HasKey(v, "val")
              THEN <<>>
              ELSE <<SetVariable(group, v.key, v.val)>>)
             \o VarsOps(Tail(items), group)

\* lines 257-283: one Group of the data
GroupOps(each_item) ==
    <<AddGroup(each_item.group)>>
    \o (IF HasKey(each_item, "vars")
        THEN VarsOps(each_item.vars, each_item.group) ELSE <<>>)
    \o VmsOps(each_item.vms, each_item.group)
    \o <<AddChild("vagrant", each_item.group)>>

RECURSIVE GroupsOps(_)
GroupsOps(data) ==
    IF data = <<>> THEN <<>> ELSE GroupOps(Head(data)) \o GroupsOps(Tail(data))

LocalHost == Val("127.0.0.1")

LocalOps_LocalGroupOmitted ==
    << AddChild("all", "vagrant") >>

\* lines 286-293
LocalOps ==
    << AddChild("all", "vagrant"),
       AddGroup("local"),
       AddHost(LocalHost, "local"),
       SetVariable(LocalHost, "ansible_connection", "local"),
       SetVariable(LocalHost, "ht_name", "local"),
       AddChild("all", "local") >>

\* lines 252-293
ParseAnsibleData(data) == <<AddGroup("vagrant")>> \o GroupsOps(data) \o LocalOps

(***************************************************************************)
(* vagrant_vm_details, lines 188-192, 235 and 242-248.  The dict keeps     *)
(* insertion order: a sequence of [key, val] entries with distinct keys.   *)
(***************************************************************************)
HasGroup(details, g) == \E i \in 1..Len(details) : details[i].key = g

EnsureGroup_AlwaysNew(details, g) ==
    Append(details, [key |-> g, val |-> [vms |-> <<>>]])

\* lines 188-189
EnsureGroup(details, g) ==
    IF HasGroup(details, g)
    THEN details
    ELSE Append(details, [key |-> g, val |-> [vms |-> <<>>]])

GroupVms(details, g) ==
    LET i == CHOOSE j \in 1..Len(details) : details[j].key = g
    IN  details[i].val.vms

\* lines 191-192
SetGroupVars(details, g, item) ==
    IF HasKey(item, "additional_vars") /\ item.additional_vars # <<>>
    THEN [i \in 1..Len(details) |->
            IF details[i].key = g
            THEN [key |-> g,
                  val |-> [vms |-> details[i].val.vms,
                           vars |-> item.additional_vars]]
            ELSE details[i]]
    ELSE details

\* line 235, for every record of one output
SetGroupVms(details, g, vms) ==
    [i \in 1..Len(details) |->
        IF details[i].key = g
        THEN [key |-> g, val |-> [details[i].val EXCEPT !.vms = vms]]
        ELSE details[i]]

\* lines 244-246
GroupData(entry) ==
    IF HasKey(entry.val, "vars")
    THEN [group |-> entry.key, vms |-> entry.val.vms, vars |-> entry.val.vars]
    ELSE [group |-> entry.key, vms |-> entry.val.vms]

\* lines 242-250
VmData(details) == [i \in 1..Len(details) |-> GroupData(details[i])]

(***************************************************************************)
(* The environment of a run: the file system and the configured items.     *)
(***************************************************************************)
P_demo == <<"", "a", "demo">>           \* "/a/demo"
P_demo1 == <<"", "b", "demo-1">>        \* "/b/demo-1"
P_slash == <<"", "c", "">>              \* "/c/"
P_nofile == <<"", "e", "demo">>         \* "/e/demo", holds no Vagrantfile

NonEmpty(segment) == segment # ""

\* the file system reads "/c//Vagrantfile" as "/c/Vagrantfile"
Normalize(path) == <<"">> \o SelectSeq(Tail(path), NonEmpty)

\* line 153
VagrantfilePath(vagrant_path) == vagrant_path \o <<"Vagrantfile">>

Vagrantfiles == { <<"", "a", "demo", "Vagrantfile">>,
                  <<"", "b", "demo-1", "Vagrantfile">>,
                  <<"", "c", "Vagrantfile">> }

IsFile_AnyPath(file_path) == TRUE

\* line 154, os.path.isfile
IsFile(file_path) == Normalize(file_path) \in Vagrantfiles

\* lines 113-114, the lines of each definition file
ReadLines(file_path) ==
    IF Normalize(file_path) = <<"", "a", "demo", "Vagrantfile">>
    THEN << DefLine(<<Val("n1")>>, <<>>), DefLine(<<>>, <<Val("10.0.0.5")>>) >>
    ELSE IF Normalize(file_path) = <<"", "b", "demo-1", "Vagrantfile">>
    THEN << DefLine(<<>>, <<Val("10.0.0.9")>>), DefLine(<<Val("n2")>>, <<>>),
            DefLine(<<Val("n3")>>, <<None>>) >>
    ELSE <<>>

Vars1 == << [key |-> "role", val |-> "web"], [key |-> "orphan"] >>

\* the items get_option("paths") may hold
PathItems ==
    { [path |-> P_demo],
      [path |-> P_demo1],
      [path |-> P_slash],
      [path |-> P_demo, group_name |-> "demo", additional_vars |-> Vars1],
      [path |-> P_demo1, group_name |-> "", additional_vars |-> <<>>],
      [path |-> P_slash, group_name |-> "k8s"],
      [path |-> P_nofile],
      [group_name |-> "demo"] }

\* what `vagrant ssh-config` prints
Out1 == << Line(FALSE, <<W_Host, Val("n1")>>),
           Line(TRUE, <<W_HostName, Val("127.0.0.1")>>),
           Line(TRUE, <<W_User, Val("vagrant")>>),
           Line(TRUE, <<W_Port, Val("2222")>>),
           Line(TRUE, <<W_UserKnownHostsFile, Val("/dev/null")>>),
           Line(TRUE, <<W_IdentityFile, Val("key1")>>) >>

Out2 == << Line(FALSE, <<W_Host, Val("n2")>>),
           Line(TRUE, <<W_HostName, Val("127.0.0.1")>>),
           Line(TRUE, <<W_User, Val("vagrant")>>),
           Line(TRUE, <<W_Port, Val("2200")>>),
           Line(TRUE, <<W_IdentityFile, Val("key2")>>),
           Line(FALSE, <<W_Host, Val("n3")>>),
           Line(TRUE, <<W_HostName, Val("127.0.0.1")>>) >>

VersionOutcomes == { Ok(<<Line(FALSE, <<Val("Vagrant"), Val("2.4.1")>>)>>),
                     NonZeroExit, Timeout }

SshConfigOutcomes == { Ok(Out1), Ok(Out2), NonZeroExit, Timeout }

\* an AggregationResult an earlier process left in the cache
StoredSample ==
    << [group |-> "old",
        vms |-> << [name |-> Val("n9"), host |-> Val("127.0.0.1"),
                    user |-> Val("vagrant"), port |-> Val("2201"),
                    key |-> Val("key9"), host_only_ip |-> Val("10.0.0.7")],
                   [name |-> Val("n8"), host |-> Val("127.0.0.1"),
                    user |-> Val("vagrant"), port |-> Val("2202"),
                    key |-> Val("key8"), host_only_ip |-> None] >>] >>

(***************************************************************************)
(* parse(), lines 295-323, and _get_vagrant_vm_details, lines 135-250      *)
(***************************************************************************)
\* lines 303-307: the local `cache` after the first if
EffectiveCache(arg, option) == IF arg THEN option ELSE FALSE

\* lines 309-314: the read of self._cache[cache_key]
CacheLookup(cache, store) ==
    IF cache
    THEN IF store # <<>>
         THEN [data |-> store, cache_needs_update |-> FALSE]
         ELSE [data |-> <<>>, cache_needs_update |-> TRUE]
    ELSE [data |-> <<>>, cache_needs_update |-> FALSE]

NeedsAggregation_Always(cache, needs_update) == TRUE

\* line 316
NeedsAggregation(cache, needs_update) == ~cache \/ needs_update

\* lines 319-320
StoreAfter(store, needs_update, data) ==
    IF needs_update THEN <<data>> ELSE store

\* lines 86-92: the command line and working directory of an invocation
Invocation(arguments, folder, outcome) ==
    [arguments |-> arguments, folder |-> folder, ended |-> outcome.kind]

TmpFolder == <<"", "tmp">>

Warning(kind, what) == [kind |-> kind, what |-> what]

RunInit ==
    /\ pc = "idle"
    /\ cache_arg = FALSE
    /\ cache_option = FALSE
    /\ get_private_ip = FALSE
    /\ cache_needs_update = FALSE
    /\ vm_paths = <<>>
    /\ existing_group_names = <<>>
    /\ private_ips = [g \in {} |-> NoIps]
    /\ vagrant_vm_details = <<>>
    /\ vagrant_data = <<>>
    /\ inventory = <<>>
    /\ warnings = <<>>
    /\ commands = <<>>
    /\ error = "none"
    /\ hist = <<>>

\* parse() up to the call of _get_vagrant_vm_details (lines 296-316); on a
\* cache hit the rest of parse() (line 323) follows at once.  A new call
\* starts with a fresh inventory and fresh locals.
Begin(arg, option, host_only_ips) ==
    LET cache == EffectiveCache(arg, option)
        looked == CacheLookup(cache, cache_store)
    IN  /\ cache_arg' = arg
        /\ cache_option' = option
        /\ get_private_ip' = host_only_ips
        /\ cache_needs_update' = looked.cache_needs_update
        /\ vm_paths' = <<>>
        /\ existing_group_names' = <<>>
        /\ private_ips' = [g \in {} |-> NoIps]
        /\ vagrant_vm_details' = <<>>
        /\ warnings' = <<>>
        /\ commands' = <<>>
        /\ error' = "none"
        /\ hist' = <<>>
        /\ cache_store' = cache_store
        /\ IF NeedsAggregation(cache, looked.cache_needs_update)
           THEN /\ pc' = "probe"
                /\ vagrant_data' = <<>>
                /\ inventory' = <<>>
           ELSE /\ pc' = "done"
                /\ vagrant_data' = looked.data[1]
                /\ inventory' = ParseAnsibleData(looked.data[1])
        /\ UNCHANGED <<parserVars, loopVars>>

\* line 140: the version probe
VersionProbe(outcome) ==
    LET r == RunVagrantCommand("--version", outcome)
    IN  /\ pc = "probe"
        /\ commands' = Append(commands,
                              Invocation("--version", TmpFolder, outcome))
        /\ IF r.raised # "none"
           THEN pc' = "failed" /\ error' = r.raised
           ELSE pc' = "paths" /\ error' = error
        /\ UNCHANGED <<cache_arg, cache_option, get_private_ip,
                       cache_needs_update, cache_store, vm_paths,
                       existing_group_names, private_ips, vagrant_vm_details,
                       vagrant_data, inventory, warnings, hist>>
        /\ UNCHANGED <<parserVars, loopVars>>

IpsOf(ips, g) == IF g \in DOMAIN ips THEN ips[g] ELSE NoIps

\* lines 148-240: one iteration of `for each_item in vm_paths`
ProcessItem(each_item, outcome, max_paths) ==
    /\ pc = "paths"
    /\ Len(vm_paths) < max_paths
    /\ vm_paths' = Append(vm_paths, each_item)
    /\ UNCHANGED <<cache_arg, cache_option, get_private_ip, cache_needs_update,
                   cache_store, vagrant_data, inventory>>
    /\ UNCHANGED <<parserVars, loopVars>>
    /\ IF ~HasKey(each_item, "path")
       THEN /\ warnings' = Append(warnings, Warning("no path key", each_item))
            /\ UNCHANGED <<pc, existing_group_names, private_ips,
                           vagrant_vm_details, commands, error, hist>>
       ELSE IF ~IsFile(VagrantfilePath(each_item.path))
       THEN /\ warnings' = Append(warnings,
                                  Warning("no Vagrantfile", each_item.path))
            /\ UNCHANGED <<pc, existing_group_names, private_ips,
                           vagrant_vm_details, commands, error, hist>>
       ELSE
         LET named == ResolveGroupName(each_item, existing_group_names)
             group_name == named.group_name
         IN  /\ existing_group_names' = named.existing
             /\ IF group_name = NoName
                THEN /\ pc' = "failed"
                     /\ error' = "AnsibleParserError"
                     /\ UNCHANGED <<private_ips, vagrant_vm_details, commands,
                                    warnings, hist>>
                ELSE
                  LET ips == IF get_private_ip
                             THEN Put(private_ips, group_name,
                                      GetVmsPrivateIps(
                                          ReadLines(VagrantfilePath(each_item.path))))
                             ELSE private_ips
                      details == SetGroupVars(
                                     EnsureGroup(vagrant_vm_details, group_name),
                                     group_name, each_item)
                      r == RunVagrantCommand("ssh-config", outcome)
                      split == SplitLines(r.output)
                      failure == IF r.raised # "none" THEN r.raised
                                 ELSE split.raised
                  IN  /\ private_ips' = ips
                      /\ commands' = Append(commands,
                                            Invocation("ssh-config",
                                                       each_item.path, outcome))
                      /\ warnings' = IF r.warned
                                     THEN Append(warnings,
                                                 Warning("ssh-config failed",
                                                         each_item.path))
                                     ELSE warnings
                      /\ IF failure # "none"
                         THEN /\ pc' = "failed"
                              /\ error' = failure
                              /\ vagrant_vm_details' = details
                              /\ hist' = hist
                         ELSE /\ pc' = pc
                              /\ error' = error
                              /\ vagrant_vm_details' =
                                    SetGroupVms(details, group_name,
                                        ParseOutput(GroupVms(details, group_name),
                                                    split.lines,
                                                    IpsOf(ips, group_name)))
                              /\ hist' = Append(hist,
                                    [item |-> Len(vm_paths) + 1,
                                     group_name |-> group_name,
                                     derived |-> ~HasExplicitName(each_item),
                                     own |-> ParseOutput(<<>>, split.lines,
                                                IpsOf(ips, group_name))])

\* lines 242-250 and 319-323: the paths are exhausted
Finish ==
    LET vm_data == VmData(vagrant_vm_details)
    IN  /\ pc = "paths"
        /\ pc' = "done"
        /\ vagrant_data' = vm_data
        /\ cache_store' = StoreAfter(cache_store, cache_needs_update, vm_data)
        /\ inventory' = ParseAnsibleData(vm_data)
        /\ UNCHANGED <<cache_arg, cache_option, get_private_ip,
                       cache_needs_update, vm_paths, existing_group_names,
                       private_ips, vagrant_vm_details, warnings, commands,
                       error, hist>>
        /\ UNCHANGED <<parserVars, loopVars>>

(***************************************************************************)
(* Specifications                                                          *)
(***************************************************************************)
\* the parsing loop alone
InitParser ==
    ParserStart /\ RunInit /\ cache_store = <<>> /\ ScannerStart /\ ResolverIdle

NextParser == (\E line \in SshLines : ReadLine(line)) \/ EndOfOutput

SpecParser == InitParser /\ [][NextParser]_vars

\* one call of parse(), the cache empty or left filled by an earlier process
Init ==
    /\ ParserStart /\ RunInit /\ cache_store \in {<<>>, <<StoredSample>>}
    /\ ScannerStart /\ ResolverIdle

Next ==
    \/ \E arg \in BOOLEAN, option \in BOOLEAN, host_only_ips \in BOOLEAN :
          pc = "idle" /\ Begin(arg, option, host_only_ips)
    \/ \E outcome \in VersionOutcomes : VersionProbe(outcome)
    \/ \E each_item \in PathItems, outcome \in SshConfigOutcomes :
          ProcessItem(each_item, outcome, MaxPaths)
    \/ Finish

Spec == Init /\ [][Next]_vars

\* calls of parse() one after another against the same cache
InitCache ==
    ParserStart /\ RunInit /\ cache_store = <<>> /\ ScannerStart /\ ResolverIdle

NextCache ==
    \/ \E arg \in BOOLEAN, option \in BOOLEAN, host_only_ips \in BOOLEAN :
          pc \in {"idle", "done", "failed"} /\ Begin(arg, option, host_only_ips)
    \/ \E outcome \in VersionOutcomes : VersionProbe(outcome)
    \/ \E each_item \in PathItems, outcome \in SshConfigOutcomes :
          ProcessItem(each_item, outcome, MaxCachePaths)
    \/ Finish

SpecCache == InitCache /\ [][NextCache]_vars

\* the line loop of _get_vms_private_ips alone
InitScanner ==
    ParserStart /\ RunInit /\ cache_store = <<>> /\ ScannerStart /\ ResolverIdle

NextScanner ==
    (\E line \in VagrantfileLines : ScanVagrantfileLine(line)) \/ EndOfVagrantfile

SpecScanner == InitScanner /\ [][NextScanner]_vars

\* the name-probing loop alone, from every base name and assigned list
InitResolver ==
    /\ ParserStart /\ RunInit /\ cache_store = <<>> /\ ScannerStart
    /\ vagrant_folder_name_base \in BaseNames
    /\ names_before \in AssignedLists
    /\ probed = <<>>

NextResolver == ProbeNames

SpecResolver == InitResolver /\ [][NextResolver]_vars

(***************************************************************************)
(* The blocks of an SSH-config text, as the claims about the parser read   *)
(* them: a block is a Host line and the lines up to the next Host line.    *)
(***************************************************************************)
FieldWords == {W_HostName, W_User, W_Port, W_IdentityFile}

IsHostDecl(line) ==
    ~line.indent /\ Len(line.words) = 2 /\ line.words[1] = W_Host

IsFieldDecl(line) ==
    line.indent /\ Len(line.words) = 2 /\ line.words[1] \in FieldWords

HostDecls(text) == {i \in 1..Len(text) : IsHostDecl(text[i])}

BlockEnd(text, i) ==
    LET later == {j \in HostDecls(text) : j > i}
    IN  IF later = {} THEN Len(text)
        ELSE (CHOOSE j \in later : \A k \in later : j <= k) - 1

BlockFields(text, i) == {text[k].words[1] : k \in (i + 1)..BlockEnd(text, i)}

\* a Host line followed by the four field lines, once each, in any order
WellFormedBlock(text, i) ==
    /\ BlockEnd(text, i) - i = 4
    /\ BlockFields(text, i) = FieldWords

\* a Host line followed by fewer than all four field kinds
MalformedBlock(text, i) ==
    /\ BlockFields(text, i) \subseteq FieldWords
    /\ BlockFields(text, i) # FieldWords

BlocksOnly(text) ==
    /\ \A k \in 1..Len(text) : IsHostDecl(text[k]) \/ IsFieldDecl(text[k])
    /\ text # <<>> => IsHostDecl(text[1])
    /\ \A i \in HostDecls(text) :
          WellFormedBlock(text, i) \/ MalformedBlock(text, i)

FieldOf(text, i, word) ==
    LET k == CHOOSE k \in (i + 1)..BlockEnd(text, i) : text[k].words[1] = word
    IN  text[k].words[2]

BlockRecord(text, i) ==
    [name |-> text[i].words[2],
     host |-> FieldOf(text, i, W_HostName),
     user |-> FieldOf(text, i, W_User),
     port |-> FieldOf(text, i, W_Port),
     key |-> FieldOf(text, i, W_IdentityFile)]

RECURSIVE WellFormedRecords(_, _)
WellFormedRecords(text, i) ==
    IF i > Len(text) THEN <<>>
    ELSE (IF IsHostDecl(text[i]) /\ WellFormedBlock(text, i)
          THEN <<BlockRecord(text, i)>> ELSE <<>>)
         \o WellFormedRecords(text, i + 1)

\* C1: for a text made of well-formed blocks interleaved with malformed
\* blocks, the parsing loop ends with exactly one record per well-formed
\* block, in block order, carrying that block's name and field values, and
\* with no record for a malformed block.
C1_RecordsAreTheWellFormedBlocks ==
    (ploop = "end" /\ BlocksOnly(vagrant_output))
        => parser.vms = WellFormedRecords(vagrant_output, 1)

(***************************************************************************)
(* Lines that supply a field, as lines 202-221 read them                   *)
(***************************************************************************)
SuppliesName(line) == StartsWith(line, W_Host)

SuppliesField(line, word) ==
    /\ ~SuppliesName(line)
    /\ StartsWith(Strip(line), word)

Count(text, Test(_)) == Cardinality({i \in 1..Len(text) : Test(text[i])})

SupName(line) == SuppliesName(line)
SupHost(line) == SuppliesField(line, W_HostName)
SupUser(line) == SuppliesField(line, W_User)
SupPort(line) == SuppliesField(line, W_Port)
SupKey(line) == SuppliesField(line, W_IdentityFile)

RecordComplete(r) ==
    /\ Truthy(r.name) /\ Truthy(r.host) /\ Truthy(r.user)
    /\ Truthy(r.port) /\ Truthy(r.key)

C9_WitnessEmitted == ploop = "end" /\ Len(parser.vms) = 1

(***************************************************************************)
(* Claims about a run                                                      *)
(***************************************************************************)
Last(seq) == seq[Len(seq)]

\* this step ran one more command
RanCommand == Len(commands') = Len(commands) + 1

WarnedOf(kind) ==
    /\ Len(warnings') = Len(warnings) + 1
    /\ Last(warnings').kind = kind

\* C2: when `ssh-config` exits non-zero for one item, the run warns, takes
\* the path as having no VMs and goes on with the next item; it is not
\* aborted.
C2_SshConfigFailureSkipsThePath ==
    [][ (/\ RanCommand
         /\ Last(commands').arguments = "ssh-config"
         /\ Last(commands').ended = "exit")
        => (/\ WarnedOf("ssh-config failed")
            /\ pc' = "paths"
            /\ error' = "none") ]_vars

\* C10: when `ssh-config` exceeds the timeout for one item the outcome is
\* the path-skip case (warning, no VMs for that path, the run goes on);
\* when the version probe times out the run ends with a fatal error.
C10_TimeoutSkipsOrIsFatal ==
    [][ /\ (/\ RanCommand
            /\ Last(commands').arguments = "ssh-config"
            /\ Last(commands').ended = "timeout")
           => (/\ WarnedOf("ssh-config failed")
               /\ pc' = "paths"
               /\ error' = "none")
        /\ (/\ RanCommand
            /\ Last(commands').arguments = "--version"
            /\ Last(commands').ended = "timeout")
           => pc' = "failed" ]_vars

\* this run executed the full aggregation and completed
Aggregated == pc = "done" /\ commands # <<>>

\* C4: after a run with the cache option enabled in which the full
\* aggregation was executed, the store holds that run's result under the
\* cache key, for both values of the cache argument.
C4_AggregationIsStored ==
    (Aggregated /\ cache_option) => cache_store = <<vagrant_data>>

\* C5: a group name derived from the last path segment never equals a
\* group name assigned to an earlier non-skipped item of the run, derived
\* or explicit.
C5_DerivedNameIsNew ==
    \A j \in 1..Len(hist) :
        hist[j].derived =>
            \A i \in 1..(j - 1) : hist[i].group_name # hist[j].group_name

\* a step that starts a call of parse()
Starts == pc \in {"idle", "done", "failed"}

\* what a cache hit must look like: no command, no aggregation step, the
\* store untouched, the stored list handed to the emitter
ServedFromStore ==
    /\ pc' = "done"
    /\ commands' = <<>>
    /\ vm_paths' = <<>> /\ hist' = <<>> /\ vagrant_vm_details' = <<>>
    /\ cache_store' = cache_store
    /\ vagrant_data' = cache_store[1]
    /\ inventory' # <<>>

\* C3, as stated: with the cache option enabled and a result stored under
\* the key, a run invokes CommandRunner zero times, performs no aggregation
\* step, leaves the store unchanged and hands the stored list to the
\* emitter.
C3_StoredResultIsReplayed ==
    [][ (Starts /\ cache_option' /\ cache_store # <<>>)
        => ServedFromStore ]_vars

\* C3, amended: with the cache option enabled, the cache argument of
\* parse() true and a result stored under the key, a run invokes
\* CommandRunner zero times, performs no aggregation step, leaves the store
\* unchanged and hands the stored list to the emitter.
C3_StoredResultIsReplayedWhenReadingCache ==
    [][ (Starts /\ cache_option' /\ cache_arg' /\ cache_store # <<>>)
        => ServedFromStore ]_vars

\* C3 witness: a run was served from a store that an earlier run filled
\* with a non-empty result.
C3_Witness ==
    /\ pc = "done" /\ cache_option /\ cache_arg
    /\ commands = <<>>
    /\ cache_store # <<>>
    /\ vagrant_data = cache_store[1]
    /\ vagrant_data # <<>>

RECURSIVE FirstOccurrences(_, _)
FirstOccurrences(h, seen) ==
    IF h = <<>> THEN <<>>
    ELSE IF Head(h).group_name \in seen
    THEN FirstOccurrences(Tail(h), seen)
    ELSE <<Head(h).group_name>>
         \o FirstOccurrences(Tail(h), seen \cup {Head(h).group_name})

RECURSIVE OwnRecordsOf(_, _)
OwnRecordsOf(h, g) ==
    IF h = <<>> THEN <<>>
    ELSE (IF Head(h).group_name = g THEN Head(h).own ELSE <<>>)
         \o OwnRecordsOf(Tail(h), g)

Probes(base) ==
    << base, base \o "-1", base \o "-2", base \o "-3", base \o "-4",
       base \o "-5" >>

Names(list) == {list[i] : i \in 1..Len(list)}

FirstFree(base, assigned) ==
    LET c == Probes(base)
        k == CHOOSE k \in 1..Len(c) :
                /\ c[k] \notin assigned
                /\ \A j \in 1..(k - 1) : c[j] \in assigned
    IN  c[k]

\* the item a step of the loop over the paths has just taken
Taken == Last(vm_paths')

TakesDerivedName ==
    /\ pc = "paths"
    /\ Len(vm_paths') = Len(vm_paths) + 1
    /\ HasKey(Taken, "path")
    /\ IsFile(VagrantfilePath(Taken.path))
    /\ ~(HasKey(Taken, "group_name") /\ Taken.group_name # "")

Identity(vm) ==
    IF "host_only_ip" \in DOMAIN vm /\ vm.host_only_ip # <<>>
    THEN vm.host_only_ip
    ELSE vm.name

RECURSIVE Records(_)
Records(data) ==
    IF data = <<>> THEN <<>>
    ELSE [i \in 1..Len(Head(data).vms) |->
            [group |-> Head(data).group, vm |-> Head(data).vms[i]]]
         \o Records(Tail(data))

IsVmHost(operation) ==
    operation.op = "add_host" /\ operation.group # "local"

HasAddressVariable(host, address) ==
    \E i \in 1..Len(inventory) :
        /\ inventory[i].op = "set_variable"
        /\ inventory[i].key = "ansible_host"
        /\ inventory[i].entity = host
        /\ inventory[i].val = address

\* C8: every VM record of the result is added to the sink as a host whose
\* identity is its hostOnlyIp when that is present and non-empty and its
\* name otherwise; the record's host (SSH address) is never the identity
\* and appears only as the connection-address variable.
C8_HostIdentity ==
    pc = "done" =>
        LET added == SelectSeq(inventory, IsVmHost)
            recs == Records(vagrant_data)
        IN  /\ Len(added) = Len(recs)
            /\ \A i \in 1..Len(recs) :
                  /\ added[i].host = Identity(recs[i].vm)
                  /\ added[i].group = recs[i].group
                  /\ added[i].host # recs[i].vm.host
                  /\ HasAddressVariable(added[i].host, recs[i].vm.host)

\* C8 witness: a freshly aggregated result was emitted that holds a record
\* with a host-only IP and a record without one.
C8_Witness ==
    /\ Aggregated
    /\ \E i \in 1..Len(Records(vagrant_data)) :
          Identity(Records(vagrant_data)[i].vm) = Val("10.0.0.5")
    /\ \E i \in 1..Len(Records(vagrant_data)) :
          ~HasKey(Records(vagrant_data)[i].vm, "host_only_ip")
    /\ Len(SelectSeq(inventory, IsVmHost)) >= 2

(***************************************************************************)
(* Items that are skipped                                                  *)
(***************************************************************************)
\* the launch directory of the item holds a Vagrantfile
HasDefinitionFile(item) ==
    SelectSeq(item.path, NonEmpty) \o <<"Vagrantfile">>
        \in { SelectSeq(f, NonEmpty) : f \in Vagrantfiles }

Skippable(item) == ~HasKey(item, "path") \/ ~HasDefinitionFile(item)

TakesItem == pc = "paths" /\ Len(vm_paths') = Len(vm_paths) + 1

\* C11: an item without a path key, or whose <path>/Vagrantfile does not
\* exist, is skipped with a warning and is not fatal: the step adds one
\* warning, runs no command, adds no Group and no assigned name, and leaves
\* the run in the loop over the items, so that the remaining items are
\* still taken.
C11_SkippedItemOnlyWarns ==
    [][(TakesItem /\ Skippable(Taken)) =>
          /\ \/ WarnedOf("no path key") /\ ~HasKey(Taken, "path")
             \/ WarnedOf("no Vagrantfile") /\ HasKey(Taken, "path")
          /\ pc' = "paths" /\ error' = "none"
          /\ commands' = commands
          /\ existing_group_names' = existing_group_names
          /\ vagrant_vm_details' = vagrant_vm_details
          /\ private_ips' = private_ips
          /\ hist' = hist]_vars

\* two items were skipped, one for each reason, and the third was processed
\* and gave the only Group of the result
C11_Witness ==
    /\ Aggregated
    /\ Len(vm_paths) = 3
    /\ ~HasKey(vm_paths[1], "path")
    /\ HasKey(vm_paths[2], "path") /\ ~HasDefinitionFile(vm_paths[2])
    /\ Len(warnings) = 2
    /\ Len(hist) = 1 /\ hist[1].item = 3 /\ hist[1].own # <<>>
    /\ Len(vagrant_data) = 1
    /\ Len(commands) = 2
    /\ existing_group_names = <<hist[1].group_name>>

(***************************************************************************)
(* What the sink receives for a Group list                                 *)
(***************************************************************************)
HasKeyAndVal(pair) == "key" \in DOMAIN pair /\ "val" \in DOMAIN pair

\* the {key, val} pairs of a Group that have both fields
PairsOf(group) ==
    IF "vars" \in DOMAIN group THEN SelectSeq(group.vars, HasKeyAndVal) ELSE <<>>

\* the operations one Group takes: create, its pairs, six per host, nest
Width(group) == 1 + Len(PairsOf(group)) + 6 * Len(group.vms) + 1

\* where the operations of the i-th Group begin, after the top-level group
RECURSIVE Offset(_, _)
Offset(data, i) ==
    IF i = 1 THEN 2 ELSE Offset(data, i - 1) + Width(data[i - 1])

GroupEmitted(ops, group, at) ==
    LET pairs == PairsOf(group)
        hosts == at + Len(pairs)
    IN  /\ ops[at] = [op |-> "add_group", name |-> group.group]
        /\ \A k \in 1..Len(pairs) :
              ops[at + k] = [op |-> "set_variable", entity |-> group.group,
                             key |-> pairs[k].key, val |-> pairs[k].val]
        /\ \A j \in 1..Len(group.vms) :
              LET vm == group.vms[j]
                  h == hosts + 6 * (j - 1) + 1
                  Set(key, val) == [op |-> "set_variable",
                                    entity |-> Identity(vm),
                                    key |-> key, val |-> val]
              IN  /\ ops[h] = [op |-> "add_host", host |-> Identity(vm),
                               group |-> group.group]
                  /\ ops[h + 1] = Set("ht_name", vm.name)
                  /\ ops[h + 2] = Set("ansible_host", vm.host)
                  /\ ops[h + 3] = Set("ansible_port", vm.port)
                  /\ ops[h + 4] = Set("ansible_user", vm.user)
                  /\ ops[h + 5] = Set("ansible_ssh_private_key_file", vm.key)
        /\ ops[at + Width(group) - 1] =
              [op |-> "add_child", parent |-> "vagrant", child |-> group.group]

LocalEmitted(ops, at) ==
    /\ ops[at] = [op |-> "add_child", parent |-> "all", child |-> "vagrant"]
    /\ ops[at + 1] = [op |-> "add_group", name |-> "local"]
    /\ ops[at + 2] = [op |-> "add_host", host |-> <<"127.0.0.1">>,
                      group |-> "local"]
    /\ ops[at + 3] = [op |-> "set_variable", entity |-> <<"127.0.0.1">>,
                      key |-> "ansible_connection", val |-> "local"]
    /\ ops[at + 4] = [op |-> "set_variable", entity |-> <<"127.0.0.1">>,
                      key |-> "ht_name", val |-> "local"]
    /\ ops[at + 5] = [op |-> "add_child", parent |-> "all", child |-> "local"]
    /\ Len(ops) = at + 5

\* C12: for every Group list handed to the emitter, the empty one included,
\* the sink receives, in this order: the top-level group; for each Group in
\* list order its creation, its vars, its hosts with the five fixed
\* variables each, and its nesting under the top-level group; the nesting
\* of the top-level group under "all"; the "local" group with the single
\* host 127.0.0.1 marked as a local connection, nested under "all".  So a
\* run that reached the emitter ends with the "local" group present.
C12_EmitterOrder ==
    pc = "done" =>
        LET n == Len(vagrant_data)
            local == IF n = 0 THEN 2
                     ELSE Offset(vagrant_data, n) + Width(vagrant_data[n])
        IN  /\ Len(inventory) = local + 5
            /\ inventory[1] = [op |-> "add_group", name |-> "vagrant"]
            /\ \A i \in 1..n :
                  GroupEmitted(inventory, vagrant_data[i], Offset(vagrant_data, i))
            /\ LocalEmitted(inventory, local)

\* a result of two Groups, the first with vars and a host, the second with
\* two hosts
C12_Witness ==
    /\ Aggregated
    /\ Len(vagrant_data) = 2
    /\ PairsOf(vagrant_data[1]) # <<>>
    /\ Len(vagrant_data[1].vms) = 1
    /\ Len(vagrant_data[2].vms) = 2
    /\ Len(inventory) = 1 + 9 + 14 + 6

\* the empty result: only the top-level group and the "local" group
C12_WitnessEmpty ==
    /\ pc = "done"
    /\ vagrant_data = <<>>
    /\ Len(inventory) = 7

\* C13: in every Group list the aggregation produces, no two Groups have
\* the same name, whatever the items are, repeated explicit group_name
\* values included.
C13_GroupNamesDistinct ==
    Aggregated =>
        \A i \in 1..Len(vagrant_data), j \in 1..Len(vagrant_data) :
            vagrant_data[i].group = vagrant_data[j].group => i = j

\* two processed items carried the same explicit group_name, a third one
\* resolved to another name
C13_Witness ==
    /\ Aggregated
    /\ Len(hist) = 3
    /\ ~hist[1].derived /\ ~hist[2].derived /\ hist[3].derived
    /\ hist[1].group_name = hist[2].group_name
    /\ Len(vagrant_data) = 2

(***************************************************************************)
(* Where the fields of an emitted record were read                         *)
(***************************************************************************)
\* the line sets vm_user (lines 210-211)
SetsUser(line) ==
    SuppliesField(line, W_User) /\ ~Contains(Strip(line), W_UserKnownHostsFile)

\* the line that supplied the name pending after `text` has been read
NameLineOf(text) ==
    CHOOSE i \in 1..Len(text) :
        /\ SuppliesName(text[i])
        /\ \A j \in (i + 1)..Len(text) : ~SuppliesName(text[j])

ReadAfter(text, from, Test(_)) == \E i \in (from + 1)..Len(text) : Test(text[i])

Emits == Len(parser'.vms) = Len(parser.vms) + 1

\* C14: a Host line resets every pending field but the name, so the host,
\* user, port and key of each emitted record were all read from lines after
\* the Host line that supplied the record's name; values of an earlier
\* incomplete block never reach a later record.
C14_FieldsReadWithinTheBlock ==
    [][Emits =>
          LET text == vagrant_output'
              from == NameLineOf(text)
          IN  /\ ReadAfter(text, from, SupHost)
              /\ ReadAfter(text, from, SetsUser)
              /\ ReadAfter(text, from, SupPort)
              /\ ReadAfter(text, from, SupKey)]_vars

(***************************************************************************)
(* The pairs the scan of a definition file records                         *)
(***************************************************************************)
\* C15: every (name, ip) pair the scan records pairs a config.vm.define
\* name with a private-network IP line that comes after that define line;
\* an IP line read while no name is pending is never paired with a define
\* line that comes later.
C15_IpFollowsItsDefine ==
    \A i \in 1..Len(paired) : paired[i].define_at < paired[i].ip_at

(***************************************************************************)
(* Private IPs of the records                                              *)
(***************************************************************************)
\* the map scanned from the definition file of the item of a hist entry
OwnMap(entry) ==
    GetVmsPrivateIps(ReadLines(vm_paths[entry.item].path \o <<"Vagrantfile">>))

HasEntry(map, name) == name \in DOMAIN map /\ map[name] # <<>>

\* C16: a record of a freshly computed result carries host_only_ip exactly
\* when get_host_only_ips is enabled and the map scanned from the
\* definition file of the record's own item has a non-empty entry for the
\* record's name, and the value is that entry; with the option disabled no
\* file is scanned and no record carries host_only_ip.
C16_HostOnlyIpFromOwnFile ==
    /\ \A i \in 1..Len(hist) : \A k \in 1..Len(hist[i].own) :
          LET vm == hist[i].own[k]
              map == OwnMap(hist[i])
          IN  /\ "host_only_ip" \in DOMAIN vm
                    <=> (get_private_ip /\ HasEntry(map, vm.name))
              /\ "host_only_ip" \in DOMAIN vm => vm.host_only_ip = map[vm.name]
    /\ ~get_private_ip => DOMAIN private_ips = {}
    /\ Aggregated =>
          \A g \in 1..Len(vagrant_data) :
              vagrant_data[g].vms = OwnRecordsOf(hist, vagrant_data[g].group)

\* two items held a VM of the same name; the record of the one whose file
\* defines the name carries its address, the record of the other, whose
\* file has no entry for it, carries none
C16_Witness ==
    /\ Aggregated
    /\ get_private_ip
    /\ Len(hist) = 2
    /\ Len(hist[1].own) = 1 /\ Len(hist[2].own) = 1
    /\ hist[1].own[1].name = hist[2].own[1].name
    /\ "host_only_ip" \in DOMAIN hist[1].own[1]
    /\ "host_only_ip" \notin DOMAIN hist[2].own[1]
    /\ Len(Records(vagrant_data)) = 2

(***************************************************************************)
(* Failure of the version probe                                            *)
(***************************************************************************)
ProbeExitsNonZero ==
    /\ RanCommand
    /\ Last(commands').arguments # "ssh-config"
    /\ Last(commands').ended = "exit"

NothingProduced ==
    /\ vm_paths' = <<>>
    /\ vagrant_vm_details' = <<>>
    /\ vagrant_data' = <<>>
    /\ inventory' = <<>>
    /\ cache_store' = cache_store

\* C17: when a command other than ssh-config (the version probe) exits
\* non-zero, the run ends with the fatal AnsibleError before any item is
\* taken: no Group is produced, nothing is written to the cache store and
\* the sink receives no operation, not even the "local" group; nothing
\* follows the error.
C17_ProbeFailureAborts ==
    [][/\ ProbeExitsNonZero =>
             pc' = "failed" /\ error' = "AnsibleError" /\ NothingProduced
       /\ error = "AnsibleError" =>
             pc' = "failed" /\ error' = error /\ NothingProduced]_vars

\* the probe failed in a run that was to fill the empty cache
C17_Witness ==
    /\ pc = "failed"
    /\ error = "AnsibleError"
    /\ Len(commands) = 1 /\ commands[1].ended = "exit"
    /\ cache_option /\ cache_needs_update
    /\ cache_store = <<>>
    /\ inventory = <<>> /\ vm_paths = <<>> /\ vagrant_data = <<>>

(***************************************************************************)
(* Resolution of the group name                                            *)
(***************************************************************************)
\* C18: for every item that is not skipped, the resolution determines a
\* group name and the fatal "could not decide group name" error is never
\* raised, whatever the path is (a path whose last "/"-separated segment
\* is empty included) and also when group_name is present but empty.
C18_NameAlwaysResolved ==
    [][(TakesItem /\ ~Skippable(Taken)) => error' # "AnsibleParserError"]_vars

(***************************************************************************)
(* The name-probing loop on its own                                        *)
(***************************************************************************)
\* C19: for every base name and every list of assigned names the probing
\* loop ends, after at most (number of assigned names + 2) probes, and it
\* ends with a candidate selected that was not assigned before and is now
\* appended to the list; it never leaves through the counter guard with no
\* candidate chosen.
C19_ProbeLoopSelects ==
    probed # <<>> =>
        LET outcome == probed[1]
        IN  /\ outcome.probes <= Len(names_before) + 2
            /\ outcome.group_name \notin Names(names_before)
            /\ outcome.existing = Append(names_before, outcome.group_name)
            /\ \E k \in 1..outcome.probes :
                  outcome.group_name = Probes(vagrant_folder_name_base)[k]

\* the base name and its first two suffixed candidates were all assigned:
\* the loop took the fourth candidate
C19_Witness ==
    /\ probed # <<>>
    /\ Len(names_before) = 3
    /\ probed[1].probes = 4
    /\ probed[1].group_name = "demo-3"

(***************************************************************************)
(* Which lines start a block                                               *)
(***************************************************************************)
ReadsLine == Len(vagrant_output') = Len(vagrant_output) + 1

LeadingToken(line) == line.words[1]

\* C20: a line starts a new block only when its leading token is exactly
\* Host; a line whose leading token is HostName, with or without leading
\* whitespace, records the host of the pending block and neither starts a
\* new block nor changes the pending name.
C20_OnlyHostStartsABlock ==
    [][ReadsLine =>
          LET line == Last(vagrant_output')
          IN  /\ (Truthy(parser'.vm_name) /\ parser'.vm_name # parser.vm_name)
                    => LeadingToken(line) = W_Host
              /\ (LeadingToken(line) = W_HostName /\ Truthy(parser.vm_name))
                    => \/ Emits
                       \/ /\ parser'.vm_name = parser.vm_name
                          /\ parser'.vm_ip = LastToken(line)]_vars

====
